---- MODULE Spec2Model ----
(***************************************************************************)
(* A model of dashapp.py, the Dash viewer for gridded datasets.            *)
(*                                                                         *)
(* Python values are modelled as follows.                                  *)
(*   - The value of the variable dropdown is a string: "None", "[]" (the   *)
(*     empty list reset_store writes) or the name of a data variable.      *)
(*   - A dimension name is a sequence of one-character strings, so that    *)
(*     str.lower, the substring tests and the parsing of a control id are  *)
(*     computed and not assumed.                                           *)
(*   - A control value or a store value is a tagged record: [t |-> "none"],*)
(*     [t |-> "int", v |-> i] or [t |-> "list", v |-> <<start, end>>].      *)
(*   - A dict is a record [t |-> "dict", items |-> s] with s its items in  *)
(*     insertion order; None in its place is [t |-> "none"].               *)
(*   - A coordinate value is an integer count of 1e-5 units.               *)
(*   - An exception is the string of its text.                             *)
(***************************************************************************)
EXTENDS Integers, Sequences, FiniteSets, TLC

VARIABLES
    ds,            \* self.ds: the dataset the components were built with
    pc,            \* position of the run ("ui", or a step of start-up or of a handler call)
    selected_var,  \* 'variable-dropdown'.value
    checklist,     \* 'dimension-checklist'.value, or none when no checklist is in the layout
    controls,      \* children of 'dimension-dropdowns-container': dimension -> control
    store,         \* 'selected-dimensions-store'.data
    stats_panel,   \* children of 'data-array-display'
    map_panel,     \* 'map-container': its children, the image's src, its style
    call,          \* the arguments of the handler call being examined
    ret,           \* what that call returned
    printed,       \* what the run has printed
    dim_selections \* DimensionSelection.dim_selections, one per server process

vars == <<ds, pc, selected_var, checklist, controls, store, stats_panel,
          map_panel, call, ret, printed, dim_selections>>

-----------------------------------------------------------------------------
(* Python helpers *)

NoneV == [t |-> "none"]
IntV(i) == [t |-> "int", v |-> i]
ListV(a, b) == [t |-> "list", v |-> <<a, b>>]
\* a dict: its items in insertion order, each [k |-> key, v |-> value]
DictV(items) == [t |-> "dict", items |-> items]
EmptyDict == DictV(<<>>)
Keys(dict) == {dict.items[i].k : i \in DOMAIN dict.items}
Get(dict, key) == dict.items[CHOOSE i \in DOMAIN dict.items : dict.items[i].k = key].v

Range(s) == {s[i] : i \in DOMAIN s}

Min2(a, b) == IF a < b THEN a ELSE b
Max2(a, b) == IF a > b THEN a ELSE b

\* seq[a:b] of Python: negative indices count from the end, both are clipped.
PyClip(i, n) == IF i < 0 THEN Max2(i + n, 0) ELSE Min2(i, n)
PySlice(s, a, b) == SubSeq(s, PyClip(a, Len(s)) + 1, PyClip(b, Len(s)))

\* seq[i] of Python: a negative index counts from the end; outside, IndexError.
PyIndexOk(s, i) == -Len(s) <= i /\ i < Len(s)
PyIndex(s, i) == IF i < 0 THEN s[i + Len(s) + 1] ELSE s[i + 1]

\* sorted(seq)
RECURSIVE Insert(_, _)
Insert(x, s) ==
    IF s = <<>> THEN <<x>>
    ELSE IF x <= Head(s) THEN <<x>> \o s
    ELSE <<Head(s)>> \o Insert(x, Tail(s))

RECURSIVE sorted(_)
sorted(s) == IF s = <<>> THEN <<>> ELSE Insert(Head(s), sorted(Tail(s)))

\* str.lower on the letters the names use
LowerChar(c) ==
    CASE c = "L" -> "l" [] c = "A" -> "a" [] c = "T" -> "t"
      [] c = "O" -> "o" [] c = "N" -> "n" [] OTHER -> c
lower(name) == [i \in DOMAIN name |-> LowerChar(name[i])]

\* sub in name
Contains(sub, name) ==
    \E i \in 1..(Len(name) - Len(sub) + 1) : SubSeq(name, i, i + Len(sub) - 1) = sub

\* f"{x:.4f}": x in 1e-5 units, the result in 1e-4 units (round half to even)
Fmt4(x) ==
    LET q == x \div 10
        r == x % 10
    IN  IF r < 5 THEN q
        ELSE IF r > 5 THEN q + 1
        ELSE IF q % 2 = 0 THEN q ELSE q + 1

-----------------------------------------------------------------------------
(* Datasets *)

lat == <<"l", "a", "t">>
lon == <<"l", "o", "n">>
time == <<"t", "i", "m", "e">>
LAT == <<"L", "A", "T">>
Lon == <<"L", "o", "n">>
depth == <<"d", "e", "p", "t", "h">>
lat_b == <<"l", "a", "t", ".", "b">>

\* ds[var].dims and ds[var][dim].values
VarDims(d, var) == d.dims[var]
HasVar(d, var) == var \in DOMAIN d.dims
HasCoord(d, var, dim) == HasVar(d, var) /\ dim \in Range(d.dims[var])
Values(d, dim) == d.coords[dim]

-----------------------------------------------------------------------------
(* DimensionSelection: the checklist and the controls *)

\* IsLatName without lower(): 'lat' in dim
IsLatName_CaseSensitive(dim) == Contains(<<"l", "a", "t">>, dim)

IsLatName(dim) == Contains(<<"l", "a", "t">>, lower(dim))
IsLonName(dim) == Contains(<<"l", "o", "n">>, lower(dim))
\* 'lat' in dim.lower() or 'lon' in dim.lower()
IsSpatial(dim) == IsLatName(dim) \/ IsLonName(dim)

\* generate_dimension_checklist: [] for no variable, the error Div when a
\* latitude or a longitude dimension is missing, else the checklist.
generate_dimension_checklist(d, var) ==
    IF var = "None" THEN [kind |-> "empty"]
    ELSE LET dimensions == VarDims(d, var)
             lat_present == \E i \in DOMAIN dimensions : IsLatName(dimensions[i])
             lon_present == \E i \in DOMAIN dimensions : IsLonName(dimensions[i])
         IN  IF ~lat_present \/ ~lon_present
             THEN [kind |-> "error",
                   text |-> "Error: Latitude and/or Longitude dimensions are not present in the selected variable."]
             ELSE [kind |-> "checklist",
                   options |-> dimensions,
                   value |-> SelectSeq(dimensions, IsSpatial)]

\* bool(selected_var): None and [] are falsy
Truthy(var) == var # "None" /\ var # "[]"

\* update_dimension_checklist
update_dimension_checklist(d, var) ==
    IF Truthy(var) THEN generate_dimension_checklist(d, var) ELSE [kind |-> "blank"]

\* int(x * k / 4) for the slider defaults: truncation towards zero
PyIntQuarter(k, m) == IF m >= 0 THEN (k * m) \div 4 ELSE -((k * (-m)) \div 4)

\* range(0, n, step)
RangeStep(n, step) == {i \in 0..(n - 1) : i % step = 0}

\* create_range_slider with the length where the last index belongs
create_range_slider_FromLength(d, dim, var) ==
    LET sorted_dim_values == sorted(Values(d, dim))
        n == Len(sorted_dim_values)
        max_val == n
        range_25 == PyIntQuarter(1, max_val)
        range_75 == PyIntQuarter(3, max_val)
        step == Max2(1, n \div 10)
    IN  [dim |-> dim, type |-> "slider", min |-> 0, max |-> max_val,
         value |-> ListV(range_25, range_75),
         marks |-> [i \in RangeStep(n, step) |-> Fmt4(sorted_dim_values[i + 1])]]

\* create_range_slider
create_range_slider(d, dim, var) ==
    LET sorted_dim_values == sorted(Values(d, dim))
        n == Len(sorted_dim_values)
        max_val == n - 1
        range_25 == PyIntQuarter(1, max_val)
        range_75 == PyIntQuarter(3, max_val)
        step == Max2(1, n \div 10)
    IN  [dim |-> dim, type |-> "slider", min |-> 0, max |-> max_val,
         value |-> ListV(range_25, range_75),
         marks |-> [i \in RangeStep(n, step) |-> Fmt4(sorted_dim_values[i + 1])]]

\* create_dropdown: one option per storage-order value, its index as value
create_dropdown(d, dim, var) ==
    [dim |-> dim, type |-> "dropdown",
     options |-> [i \in DOMAIN Values(d, dim) |-> [label |-> Values(d, dim)[i], value |-> i - 1]],
     value |-> NoneV]

\* generate_dimension_controls: a range slider per spatial dimension, a
\* dropdown per other dimension, in the order of the checklist value
generate_dimension_controls(d, selected_dims, var) ==
    [i \in DOMAIN selected_dims |->
        IF IsSpatial(selected_dims[i])
        THEN create_range_slider(d, selected_dims[i], var)
        ELSE create_dropdown(d, selected_dims[i], var)]

\* update_dimension_controls: "" unless a variable and a non-empty checklist
update_dimension_controls(d, selected_dims, var) ==
    IF Truthy(var) /\ selected_dims # <<>>
    THEN generate_dimension_controls(d, selected_dims, var)
    ELSE <<>>

IsSlider(c) == c.type = "slider"
IsDropdown(c) == c.type = "dropdown"

\* `if dropdown_val:` None and 0 are falsy
DropdownTruthy(v) == v.t = "int" /\ v.v # 0

\* store_user_selection: the sliders of the layout first, then the dropdowns.
\* self.ds[selected_var][dimension_name] raises KeyError when the variable is
\* not in the dataset or has no such dimension.
store_user_selection(d, var, ctl) ==
    LET slider_inputs == SelectSeq(ctl, IsSlider)
        dropdown_inputs == SelectSeq(ctl, IsDropdown)
        Bad(c) == ~HasCoord(d, var, c.dim)
        Chosen(c) == DropdownTruthy(c.value)
        picked == SelectSeq(dropdown_inputs, Chosen)
    IN  IF \E i \in DOMAIN slider_inputs : Bad(slider_inputs[i])
        THEN [ok |-> FALSE, err |-> "KeyError"]
        ELSE [ok |-> TRUE,
              data |-> DictV([i \in DOMAIN slider_inputs |->
                                 [k |-> slider_inputs[i].dim, v |-> slider_inputs[i].value]]
                             \o [i \in DOMAIN picked |->
                                 [k |-> picked[i].dim, v |-> picked[i].value]])]

\* The prop_id of a triggering slider, '{"index":"<dim>","type":"dimension-slider"}.value',
\* as a sequence: the two fixed parts of the JSON text, the characters of the
\* name between them, then ".value". No input triggered: ".".
PropId(trig) ==
    IF trig.t = "none" THEN <<".">>
    ELSE <<"{index:">> \o trig.index \o <<",type:dimension-slider}", ".", "value">>

\* prop_id.split('.')[0]
BeforeDot(s) ==
    IF \E i \in DOMAIN s : s[i] = "."
    THEN SubSeq(s, 1, (CHOOSE i \in DOMAIN s : s[i] = "." /\ \A j \in 1..(i - 1) : s[j] # ".") - 1)
    ELSE s

\* json.loads(dim.replace("'", "\""))['index']: the text must be the whole
\* JSON object, and a quote in the name ends the string early.
JsonLoadsOk(s) ==
    /\ Len(s) >= 2
    /\ s[1] = "{index:"
    /\ s[Len(s)] = ",type:dimension-slider}"
    /\ \A i \in 2..(Len(s) - 1) : s[i] # "'"
JsonIndex(s) == SubSeq(s, 2, Len(s) - 1)

\* update_slider_output reading the values in storage order
update_slider_output_Unsorted(d, slider_value, var, trig) ==
    IF var = "None" \/ slider_value.t = "none" THEN [kind |-> "blank"]
    ELSE LET dim == BeforeDot(PropId(trig))
         IN  IF dim = <<>> THEN [kind |-> "text", text |-> "Make a selection"]
             ELSE IF ~JsonLoadsOk(dim) \/ ~HasCoord(d, var, JsonIndex(dim))
             THEN [kind |-> "text", text |-> "Error updating slider output"]
             ELSE LET dim_values == Values(d, JsonIndex(dim))
                      start_idx == slider_value.v[1]
                      end_idx == slider_value.v[2]
                  IN  IF start_idx < 0 \/ end_idx >= Len(dim_values)
                      THEN [kind |-> "text", text |-> "Index out of bounds"]
                      ELSE IF ~PyIndexOk(dim_values, start_idx) \/ ~PyIndexOk(dim_values, end_idx)
                      THEN [kind |-> "text", text |-> "Error updating slider output"]
                      ELSE [kind |-> "range",
                            start |-> Fmt4(PyIndex(dim_values, start_idx)),
                            end |-> Fmt4(PyIndex(dim_values, end_idx))]

\* update_slider_output
update_slider_output(d, slider_value, var, trig) ==
    IF var = "None" \/ slider_value.t = "none" THEN [kind |-> "blank"]
    ELSE LET dim == BeforeDot(PropId(trig))
         IN  IF dim = <<>> THEN [kind |-> "text", text |-> "Make a selection"]
             ELSE IF ~JsonLoadsOk(dim) \/ ~HasCoord(d, var, JsonIndex(dim))
             THEN [kind |-> "text", text |-> "Error updating slider output"]
             ELSE LET dim_values == Values(d, JsonIndex(dim))
                      sorted_dim_values == sorted(dim_values)
                      start_idx == slider_value.v[1]
                      end_idx == slider_value.v[2]
                  IN  IF start_idx < 0 \/ end_idx >= Len(dim_values)
                      THEN [kind |-> "text", text |-> "Index out of bounds"]
                      ELSE IF ~PyIndexOk(sorted_dim_values, start_idx)
                              \/ ~PyIndexOk(sorted_dim_values, end_idx)
                      THEN [kind |-> "text", text |-> "Error updating slider output"]
                      ELSE [kind |-> "range",
                            start |-> Fmt4(PyIndex(sorted_dim_values, start_idx)),
                            end |-> Fmt4(PyIndex(sorted_dim_values, end_idx))]

-----------------------------------------------------------------------------
(* DataRetriever: the two access tiers *)

engines == <<"zarr", "netcdf4">>

\* ds[selected_var].sel(**user_selection).compute() on an opened dataset: a
\* list of coordinate values keeps the dimension with those labels, a single
\* value drops it, a dimension not selected is kept whole.  The result is
\* the array's axes in the variable's dimension order.
SelOk(d, var, selection) ==
    /\ HasVar(d, var)
    /\ \A i \in DOMAIN selection.items :
          /\ HasCoord(d, var, selection.items[i].k)
          /\ LET q == selection.items[i].v
                 have == Range(Values(d, selection.items[i].k))
             IN  IF q.t = "values" THEN Range(q.v) \subseteq have ELSE q.v \in have

Kept(d, var, selection) ==
    LET Stays(dim) == ~(dim \in Keys(selection) /\ Get(selection, dim).t = "scalar")
    IN  SelectSeq(VarDims(d, var), Stays)

Sel(d, var, selection) ==
    LET kept == Kept(d, var, selection)
    IN  [t |-> "array", var |-> var,
         axes |-> [i \in DOMAIN kept |->
                     [dim |-> kept[i],
                      values |-> IF kept[i] \in Keys(selection)
                                 THEN Get(selection, kept[i]).v
                                 ELSE Values(d, kept[i])]]]

Shape(array) == [i \in DOMAIN array.axes |-> Len(array.axes[i].values)]
AxisOf(array, dim) == array.axes[CHOOSE i \in DOMAIN array.axes : array.axes[i].dim = dim]
HasAxis(array, dim) == \E i \in DOMAIN array.axes : array.axes[i].dim = dim

\* StandardTried going through the engines a second time when none opened
StandardTried_Retry(env) ==
    IF env.open[engines[1]] = "ok" THEN <<engines[1]>> ELSE engines \o engines

\* The engines open_standard_file tries: each in turn until one opens.
\* env.open[engine] is "ok" or the text of the exception xr.open_dataset raises.
StandardTried(env) ==
    IF env.open[engines[1]] = "ok" THEN <<engines[1]>> ELSE engines

\* the lines open_standard_file prints: one per engine that failed to open
StandardPrinted(env, tried) ==
    LET failed == SelectSeq(tried, LAMBDA e : env.open[e] # "ok")
    IN  [i \in DOMAIN failed |->
            [text |-> "Failed to open file", engine |-> failed[i], err |-> env.open[failed[i]]]]

\* the subsetting lines of open_standard_file after the engines in tried
StandardFrom(env, d, var, selection, tried, lines) ==
    IF env.open[tried[Len(tried)]] # "ok"
    THEN [ok |-> FALSE, err |-> "UnboundLocalError", tried |-> tried, printed |-> lines]
    ELSE IF ~SelOk(d, var, selection)
    THEN [ok |-> FALSE, err |-> "KeyError", tried |-> tried, printed |-> lines]
    ELSE IF env.compute # "ok"
    THEN [ok |-> FALSE, err |-> env.compute, tried |-> tried, printed |-> lines]
    ELSE [ok |-> TRUE, value |-> Sel(d, var, selection), tried |-> tried, printed |-> lines]

\* open_standard_file: when no engine opened, `ds` is unbound at the
\* subsetting line and UnboundLocalError is raised there.
open_standard_file(env, d, var, selection) ==
    StandardFrom(env, d, var, selection, StandardTried(env),
                 StandardPrinted(env, StandardTried(env)))

\* open_cmems_file: the authenticated opener, then the same subsetting
open_cmems_file(env, d, var, selection) ==
    IF env.cmems_open # "ok" THEN [ok |-> FALSE, err |-> env.cmems_open]
    ELSE IF ~SelOk(d, var, selection) THEN [ok |-> FALSE, err |-> "KeyError"]
    ELSE IF env.cmems_compute # "ok" THEN [ok |-> FALSE, err |-> env.cmems_compute]
    ELSE [ok |-> TRUE, value |-> Sel(d, var, selection)]

\* RetrieveFrom without the second tier: None as soon as the generic tier raises
RetrieveFrom_NoFallback(std, cm) ==
    IF std.ok
    THEN [t |-> "fetch", data |-> std.value, via |-> "standard",
          tiers |-> <<[tier |-> "standard", ok |-> TRUE, err |-> "", tried |-> std.tried]>>,
          printed |-> std.printed]
    ELSE [t |-> "fetch", data |-> NoneV, via |-> "none",
          tiers |-> <<[tier |-> "standard", ok |-> FALSE, err |-> std.err, tried |-> std.tried]>>,
          printed |-> std.printed]

\* What retrieve_data_using_dimension_selections returns and prints, given
\* what the generic tier did (std) and what the authenticated tier does when
\* called (cm).  tiers lists the tiers called, in order, and via names the
\* tier whose array is returned.
RetrieveFrom(std, cm) ==
    IF std.ok
    THEN [t |-> "fetch", data |-> std.value, via |-> "standard",
          tiers |-> <<[tier |-> "standard", ok |-> TRUE, err |-> "", tried |-> std.tried]>>,
          printed |-> std.printed]
    ELSE [t |-> "fetch", data |-> IF cm.ok THEN cm.value ELSE NoneV,
          via |-> IF cm.ok THEN "cmems" ELSE "none",
          tiers |-> <<[tier |-> "standard", ok |-> FALSE, err |-> std.err, tried |-> std.tried],
                      [tier |-> "cmems", ok |-> cm.ok, err |-> IF cm.ok THEN "" ELSE cm.err,
                       tried |-> <<>>]>>,
          printed |-> std.printed
                      \o <<[text |-> "Failed to open file, trying custom open",
                            engine |-> "standard", err |-> std.err]>>
                      \o (IF cm.ok THEN <<>>
                          ELSE <<[text |-> "Failed to open file", engine |-> "cmems", err |-> cm.err]>>)]

\* retrieve_data_using_dimension_selections: the generic tier, on any
\* exception the authenticated tier, on a second exception None.
retrieve_data_using_dimension_selections(env, d, var, selection) ==
    RetrieveFrom(open_standard_file(env, d, var, selection),
                 open_cmems_file(env, d, var, selection))

-----------------------------------------------------------------------------
(* DataDisplay and DataPlot *)

\* One entry of the selection loop of display_data and plot_selected_data:
\* a list becomes the storage-order values[value[0]:value[1]], an int on a
\* spatial name is subscripted (TypeError), another int becomes values[value].
EntryError(d, var, item) ==
    IF item.v.t = "list"
    THEN IF HasCoord(d, var, item.k) THEN "" ELSE "KeyError"
    ELSE IF IsSpatial(item.k) THEN "TypeError: 'int' object is not subscriptable"
    ELSE IF item.v.t = "int"
    THEN IF ~HasCoord(d, var, item.k) THEN "KeyError"
         ELSE IF ~PyIndexOk(Values(d, item.k), item.v.v) THEN "IndexError"
         ELSE ""
    ELSE ""

\* EntryQuery handing the index of a dropdown on unchanged
EntryQuery_RawIndex(d, var, item) ==
    IF item.v.t = "list"
    THEN [t |-> "values", v |-> PySlice(Values(d, item.k), item.v.v[1], item.v.v[2])]
    ELSE [t |-> "scalar", v |-> item.v.v]

EntryQuery(d, var, item) ==
    IF item.v.t = "list"
    THEN [t |-> "values", v |-> PySlice(Values(d, item.k), item.v.v[1], item.v.v[2])]
    ELSE [t |-> "scalar", v |-> PyIndex(Values(d, item.k), item.v.v)]

\* The selection loop: the first entry that raises ends it.
BuildSelection(d, var, selected_dims) ==
    IF selected_dims.t # "dict"
    THEN [ok |-> FALSE, err |-> "AttributeError: 'NoneType' object has no attribute 'items'"]
    ELSE LET items == selected_dims.items
             bad == {i \in DOMAIN items : EntryError(d, var, items[i]) # ""}
             Taken(it) == it.v.t = "list" \/ it.v.t = "int"
             taken == SelectSeq(items, Taken)
         IN  IF bad # {}
             THEN [ok |-> FALSE,
                   err |-> EntryError(d, var, items[CHOOSE i \in bad : \A j \in bad : i <= j])]
             ELSE [ok |-> TRUE,
                   selection |-> DictV([i \in DOMAIN taken |->
                                          [k |-> taken[i].k, v |-> EntryQuery(d, var, taken[i])]])]

RECURSIVE Product(_)
Product(shape) == IF shape = <<>> THEN 1 ELSE Head(shape) * Product(Tail(shape))
\* array.size
Size(array) == Product(Shape(array))

\* the panel display_data returns once the subset f came back
StatsFrom(b, f) ==
    IF f.data.t = "none"
    THEN [panel |-> [kind |-> "error",
                     text |-> "AttributeError: 'NoneType' object has no attribute 'values'"],
          built |-> b, fetch |-> f]
    ELSE IF Size(f.data) = 0
    THEN [panel |-> [kind |-> "error",
                     text |-> "ValueError: zero-size array to reduction operation"],
          built |-> b, fetch |-> f]
    ELSE [panel |-> [kind |-> "stats", array |-> f.data], built |-> b, fetch |-> f]

\* the try block of display_data, the selection loop done
DisplayFrom(d, var, env, b) ==
    IF ~b.ok
    THEN [panel |-> [kind |-> "error", text |-> b.err], built |-> b, fetch |-> NoneV]
    ELSE StatsFrom(b, retrieve_data_using_dimension_selections(env, d, var, b.selection))

\* display_data: the placeholder unless clicked with a variable chosen;
\* the statistics of the subset, or the text of whatever was raised.
display_data(d, n_clicks, var, selected_dims, env) ==
    IF ~(n_clicks > 0 /\ Truthy(var))
    THEN [panel |-> [kind |-> "placeholder"], built |-> NoneV, fetch |-> NoneV]
    ELSE DisplayFrom(d, var, env, BuildSelection(d, var, selected_dims))

RECURSIVE SeqMin(_)
SeqMin(s) == IF Len(s) = 1 THEN s[1] ELSE Min2(Head(s), SeqMin(Tail(s)))
RECURSIVE SeqMax(_)
SeqMax(s) == IF Len(s) = 1 THEN s[1] ELSE Max2(Head(s), SeqMax(Tail(s)))

\* The last key of the dict whose name satisfies Test, or <<>>: what the
\* loop `for dim in selected_dims` leaves in lons and in lats.
LastKey(dict, Test(_)) ==
    LET hits == {i \in DOMAIN dict.items : Test(dict.items[i].k)}
    IN  IF hits = {} THEN <<>> ELSE dict.items[CHOOSE i \in hits : \A j \in hits : j <= i].k

\* pcolormesh(lon, lat, C, shading='auto') takes a 2-D C of the shape of the
\* mesh, (len(lats), len(lons)), or one less in both.
MeshOk(array, lats, lons) ==
    \/ Shape(array) = <<Len(lats), Len(lons)>>
    \/ Shape(array) = <<Len(lats) - 1, Len(lons) - 1>>

PlotFail(e, b, f) == [src |-> [kind |-> "blank"], built |-> b, fetch |-> f, err |-> e]

\* the drawing lines of plot_selected_data, lons and lats assigned
DrawFrom(b, f, lons, lats, render) ==
    IF lons = <<>> \/ lats = <<>>
    THEN PlotFail("ValueError: zero-size array to reduction operation", b, f)
    ELSE IF ~MeshOk(f.data, lats, lons)
    THEN PlotFail("TypeError: Dimensions of C are incompatible with X and Y", b, f)
    ELSE IF render # "ok" THEN PlotFail(render, b, f)
    ELSE [src |-> [kind |-> "image",
                   extent |-> <<SeqMin(lons), SeqMax(lons), SeqMin(lats), SeqMax(lats)>>,
                   array |-> f.data],
          built |-> b, fetch |-> f, err |-> ""]

\* the lines of plot_selected_data after the subset f came back: the loop
\* that assigns lons and lats from the keys of the store, then the drawing
PlotFrom(b, f, lon_dim, lat_dim, render) ==
    IF f.data.t = "none" /\ (lon_dim # <<>> \/ lat_dim # <<>>)
    THEN PlotFail("TypeError: 'NoneType' object is not subscriptable", b, f)
    ELSE IF lon_dim = <<>> \/ lat_dim = <<>>
    THEN PlotFail("UnboundLocalError", b, f)
    ELSE IF ~HasAxis(f.data, lon_dim) \/ ~HasAxis(f.data, lat_dim)
    THEN PlotFail("KeyError", b, f)
    ELSE DrawFrom(b, f, AxisOf(f.data, lon_dim).values, AxisOf(f.data, lat_dim).values, render)

\* the try block of plot_selected_data, the selection loop done
PlotBuilt(d, var, selected_dims, env, render, b) ==
    IF ~b.ok THEN PlotFail(b.err, b, NoneV)
    ELSE PlotFrom(b, retrieve_data_using_dimension_selections(env, d, var, b.selection),
                  LastKey(selected_dims, IsLonName), LastKey(selected_dims, IsLatName), render)

\* plot_selected_data: the encoded image, or "" after any exception.
\* render is "ok" or the text of what the drawing and encoding calls raise.
plot_selected_data(d, var, selected_dims, env, render) ==
    IF var = "None" THEN PlotFail("", NoneV, NoneV)
    ELSE PlotBuilt(d, var, selected_dims, env, render, BuildSelection(d, var, selected_dims))

\* the outputs of display_plot for the src plot_selected_data returned
PlotOutputs(p) ==
    IF p.src.kind = "image"
    THEN [src |-> p.src, style |-> "block", plot |-> p]
    ELSE [src |-> [kind |-> "blank"], style |-> "none", plot |-> p]

\* display_plot: the image shown, or an empty src and the container hidden
display_plot(d, n_clicks, var, selected_dims, env, render) ==
    IF n_clicks > 0 /\ Truthy(var)
    THEN PlotOutputs(plot_selected_data(d, var, selected_dims, env, render))
    ELSE [src |-> [kind |-> "blank"], style |-> "none", plot |-> NoneV]

-----------------------------------------------------------------------------
(* ResetFunctionality *)

\* reset_store: ({}, [], [], 'No data selected.', "") for the store, the
\* variable dropdown, the controls, the statistics panel and the children of
\* the map container; no update when n_clicks is 0.
reset_store(n_clicks) ==
    IF n_clicks > 0
    THEN [update |-> TRUE,
          store |-> EmptyDict,
          variable |-> "[]",
          controls |-> <<>>,
          stats |-> [kind |-> "text", text |-> "No data selected."],
          map_children |-> "blank"]
    ELSE [update |-> FALSE]

-----------------------------------------------------------------------------
(* The datasets and the environments the runs are drawn from *)

\* temp(time:3, lat:5, lon:5) and prof(time:3, lat:5), coordinates stored sorted
ExampleDataset ==
    [dims |-> [v \in {"temp", "prof"} |-> IF v = "temp" THEN <<time, lat, lon>> ELSE <<time, lat>>],
     coords |-> [n \in {time, lat, lon} |->
                   IF n = time THEN <<0, 100000, 200000>>
                   ELSE IF n = lat THEN <<1000000, 2000000, 3000000, 4000000, 5000000>>
                   ELSE <<-1000000, 0, 1000000, 2000000, 3000000>>]]

\* the same variables and coordinate values, latitude stored north to south
\* and longitude stored from the date line eastwards
ShuffledDataset ==
    [dims |-> ExampleDataset.dims,
     coords |-> [n \in {time, lat, lon} |->
                   IF n = time THEN <<0, 100000, 200000>>
                   ELSE IF n = lat THEN <<5000000, 4000000, 3000000, 2000000, 1000000>>
                   ELSE <<2000000, 3000000, -1000000, 0, 1000000>>]]

\* a smaller dataset for the interactive runs: temp(time:2, LAT:2, lon:2),
\* prof(time:2, LAT:2)
UiDataset ==
    [dims |-> [v \in {"temp", "prof"} |-> IF v = "temp" THEN <<time, LAT, lon>> ELSE <<time, LAT>>],
     coords |-> [n \in {time, LAT, lon} |->
                   IF n = time THEN <<0, 100000>>
                   ELSE IF n = LAT THEN <<2000000, 1000000>>
                   ELSE <<0, 1000000>>]]

DataVars(d) == DOMAIN d.dims
\* the largest index any coordinate array of the dataset has
MaxIndex(d) == CHOOSE m \in 0..10 :
    /\ \A n \in DOMAIN d.coords : Len(d.coords[n]) - 1 <= m
    /\ \E n \in DOMAIN d.coords : Len(d.coords[n]) - 1 = m

\* What the storage and the drawing calls do during one request.  An outcome
\* is "ok" or the text of the exception; a call that is never made has "ok".
StdOpened(e) == \E i \in DOMAIN engines : e.open[engines[i]] = "ok"
StdOk(e) == StdOpened(e) /\ e.compute = "ok"
CmemsOk(e) == e.cmems_open = "ok" /\ e.cmems_compute = "ok"
Envs ==
    {e \in [open : [Range(engines) -> {"ok", "OSError"}],
            compute : {"ok", "RuntimeError"},
            cmems_open : {"ok", "CredentialError"},
            cmems_compute : {"ok", "TimeoutError"}] :
        /\ e.open[engines[1]] = "ok" => e.open[engines[2]] = "ok"
        /\ ~StdOpened(e) => e.compute = "ok"
        /\ StdOk(e) => e.cmems_open = "ok"
        /\ e.cmems_open # "ok" \/ StdOk(e) => e.cmems_compute = "ok"}
Renders == {"ok", "ValueError"}

MaxClicks == 1

-----------------------------------------------------------------------------
(* The interactive session: Spec *)

\* what the browser keeps of a panel: the kind and the text, not the array
PanelView(panel) ==
    IF panel.kind = "stats" THEN [kind |-> "stats"] ELSE panel
SrcView(src) == [kind |-> src.kind]

\* the store after store_selected_dimensions ran on the controls ctl: its
\* return value, or the store as it was when the callback raised
StoreAfter(d, var, ctl, old) ==
    LET r == store_user_selection(d, var, ctl)
    IN  IF r.ok THEN r.data ELSE old
\* self.dim_selections after the same call: line 316 assigns what line 315 returned
DimSelectionsAfter(d, var, ctl, old) == StoreAfter(d, var, ctl, old)

\* The page as served and after the callbacks of the first load:
\* display_data(0, None, None) and display_plot(0, None, None) ran; the store
\* callback has no control to read and leaves None or writes {}.
Init ==
    /\ ds = UiDataset
    /\ pc = "ui"
    /\ selected_var = "None"
    /\ checklist = NoneV
    /\ controls = <<>>
    /\ store \in {NoneV, EmptyDict}
    /\ stats_panel = PanelView(display_data(ds, 0, "None", NoneV, CHOOSE e \in Envs : TRUE).panel)
    /\ map_panel = [children |-> "img", src |-> [kind |-> "blank"], style |-> "none"]
    /\ dim_selections = EmptyDict
    /\ call = NoneV
    /\ ret = NoneV
    /\ printed = <<>>

\* The user picks a variable or clears the dropdown: update_dimension_checklist
\* runs; a new checklist fires update_dimension_controls, and new controls
\* fire store_selected_dimensions.  Without a checklist the controls and the
\* store stay as they are.
PickVariable(v) ==
    /\ pc = "ui"
    /\ v # selected_var
    /\ v = "None" => Truthy(selected_var)
    /\ selected_var' = v
    /\ LET cl == update_dimension_checklist(ds, v)
           ctl == update_dimension_controls(ds, cl.value, v)
       IN  IF cl.kind = "checklist"
           THEN /\ checklist' = [t |-> "value", v |-> cl.value]
                /\ controls' = ctl
                /\ store' = StoreAfter(ds, v, ctl, store)
                /\ dim_selections' = DimSelectionsAfter(ds, v, ctl, dim_selections)
           ELSE /\ checklist' = NoneV
                /\ UNCHANGED <<controls, store, dim_selections>>
    /\ UNCHANGED <<ds, pc, stats_panel, map_panel, call, ret, printed>>

\* The checklist value after a click on one option: removed, or added.  The
\* value is kept in the order of the options (the browser appends a ticked
\* option; the order of the value decides only the order of the controls
\* and of the items of the store).
Toggled(options, value, dim) ==
    SelectSeq(options, LAMBDA x : (x \in Range(value)) # (x = dim))

\* The user ticks or unticks a dimension: update_dimension_controls rebuilds
\* every control, then store_selected_dimensions runs.
ToggleChecklist(dim) ==
    /\ pc = "ui"
    /\ checklist.t = "value"
    /\ dim \in Range(VarDims(ds, selected_var))
    /\ LET value == Toggled(VarDims(ds, selected_var), checklist.v, dim)
           ctl == update_dimension_controls(ds, value, selected_var)
       IN  /\ checklist' = [t |-> "value", v |-> value]
           /\ controls' = ctl
           /\ store' = StoreAfter(ds, selected_var, ctl, store)
           /\ dim_selections' = DimSelectionsAfter(ds, selected_var, ctl, dim_selections)
    /\ UNCHANGED <<ds, pc, selected_var, stats_panel, map_panel, call, ret, printed>>

\* The user drags a range slider: store_selected_dimensions runs.
MoveSlider(i, a, b) ==
    /\ pc = "ui"
    /\ IsSlider(controls[i])
    /\ controls[i].min <= a /\ a <= b /\ b <= controls[i].max
    /\ controls[i].value # ListV(a, b)
    /\ controls' = [controls EXCEPT ![i].value = ListV(a, b)]
    /\ store' = StoreAfter(ds, selected_var, controls', store)
    /\ dim_selections' = DimSelectionsAfter(ds, selected_var, controls', dim_selections)
    /\ UNCHANGED <<ds, pc, selected_var, checklist, stats_panel, map_panel, call, ret, printed>>

\* The user chooses or clears a dropdown option: store_selected_dimensions runs.
ChooseDropdown(i, v) ==
    /\ pc = "ui"
    /\ IsDropdown(controls[i])
    /\ v = NoneV \/ \E k \in DOMAIN controls[i].options : v = IntV(controls[i].options[k].value)
    /\ controls[i].value # v
    /\ controls' = [controls EXCEPT ![i].value = v]
    /\ store' = StoreAfter(ds, selected_var, controls', store)
    /\ dim_selections' = DimSelectionsAfter(ds, selected_var, controls', dim_selections)
    /\ UNCHANGED <<ds, pc, selected_var, checklist, stats_panel, map_panel, call, ret, printed>>

\* A click on 'Max/Min/Mean/Med/STDEV': display_data
ShowStats(n_clicks, env) ==
    /\ pc = "ui"
    /\ stats_panel' = PanelView(display_data(ds, n_clicks, selected_var, store, env).panel)
    /\ UNCHANGED <<dim_selections, ds, pc, selected_var, checklist, controls, store, map_panel, call, ret, printed>>

\* A click on 'Show Plot': display_plot writes the src of the image and the
\* style of its container.  The image has to be in the layout to be written.
ShowPlot(n_clicks, env, render) ==
    /\ pc = "ui"
    /\ map_panel.children = "img"
    /\ LET r == display_plot(ds, n_clicks, selected_var, store, env, render)
       IN  map_panel' = [map_panel EXCEPT !.src = SrcView(r.src), !.style = r.style]
    /\ UNCHANGED <<dim_selections, ds, pc, selected_var, checklist, controls, store, stats_panel, call, ret, printed>>

\* A click on 'Reset': reset_store writes its five outputs; the new dropdown
\* value fires update_dimension_checklist, which removes the checklist.
Reset(n_clicks) ==
    /\ pc = "ui"
    /\ LET r == reset_store(n_clicks)
       IN  /\ r.update
           /\ store' = r.store
           /\ selected_var' = r.variable
           /\ controls' = r.controls
           /\ stats_panel' = r.stats
           /\ map_panel' = [children |-> r.map_children, src |-> [kind |-> "blank"],
                            style |-> map_panel.style]
           /\ checklist' = IF update_dimension_checklist(ds, r.variable).kind = "checklist"
                           THEN checklist ELSE NoneV
    /\ UNCHANGED <<dim_selections, ds, pc, call, ret, printed>>

Next ==
    \/ \E v \in DataVars(ds) \cup {"None"} : PickVariable(v)
    \/ \E dim \in DOMAIN ds.coords : ToggleChecklist(dim)
    \/ \E i \in DOMAIN controls : \E a, b \in 0..MaxIndex(ds) : MoveSlider(i, a, b)
    \/ \E i \in DOMAIN controls : \E v \in {NoneV} \cup {IntV(k) : k \in 0..MaxIndex(ds)} :
          ChooseDropdown(i, v)
    \/ \E n \in 1..MaxClicks : \E env \in Envs : ShowStats(n, env)
    \/ \E n \in 1..MaxClicks : \E env \in Envs : \E render \in Renders : ShowPlot(n, env, render)
    \/ \E n \in 1..MaxClicks : Reset(n)

Spec == Init /\ [][Next]_vars

-----------------------------------------------------------------------------
(* Start-up: SpecStartup *)

\* the dataset paths of the runs: the scheme or directory, then the rest
Paths == {<<"http://", "host/data.zarr">>, <<"https://", "host/data.zarr">>,
          <<"/data/", "sst.nc">>, <<"ftp://", "host/sst.nc">>}
\* what xr.open_dataset raises in the start-up runs
StartupErrors == {"OSError", "ValueError", "KeyError"}

\* is_url: startswith('http://') or startswith('https://')
is_url(datasetPath) == datasetPath[1] = "http://" \/ datasetPath[1] = "https://"

\* read_dataset_metadata without the return in the try block: an engine that
\* opened is followed by the next one
read_dataset_metadata_NoReturn(i, outcome) ==
    IF i < Len(engines)
    THEN [return |-> FALSE, value |-> NoneV,
          lines |-> IF outcome = "ok" THEN <<>>
                    ELSE <<[text |-> "Failed to open file", err |-> outcome]>>]
    ELSE IF outcome = "ok"
    THEN [return |-> TRUE, value |-> [t |-> "dataset", engine |-> engines[i]], lines |-> <<>>]
    ELSE [return |-> TRUE, value |-> NoneV,
          lines |-> <<[text |-> "Failed to open file", err |-> outcome],
                      [text |-> "Engines failed to open file", engines |-> engines]>>]

\* One turn of the loop of read_dataset_metadata, engine i having been
\* tried with the given outcome: return the dataset, go on to the next
\* engine after printing the cause, or print the last line and return None.
read_dataset_metadata(i, outcome) ==
    IF outcome = "ok"
    THEN [return |-> TRUE, value |-> [t |-> "dataset", engine |-> engines[i]], lines |-> <<>>]
    ELSE IF i < Len(engines)
    THEN [return |-> FALSE, value |-> NoneV,
          lines |-> <<[text |-> "Failed to open file", err |-> outcome]>>]
    ELSE [return |-> TRUE, value |-> NoneV,
          lines |-> <<[text |-> "Failed to open file", err |-> outcome],
                      [text |-> "Engines failed to open file", engines |-> engines]>>]

\* setup_layout: the error page when the dataset is None, else the viewer
setup_layout(dataset) == IF dataset.t = "none" THEN "error_page" ELSE "serving"

InitStartup ==
    /\ pc = "main"
    /\ call \in {c \in [path : Paths, is_file : BOOLEAN, engine : {1}, tried : {<<>>}, outcomes : {<<>>}] :
                    is_url(c.path) => ~c.is_file}
    /\ ds = NoneV
    /\ ret = NoneV
    /\ printed = <<>>
    /\ selected_var = "None"
    /\ checklist = NoneV
    /\ controls = <<>>
    /\ store = NoneV
    /\ stats_panel = NoneV
    /\ map_panel = NoneV
    /\ dim_selections = EmptyDict

\* __main__: a path that is no URL has to be an existing file
Main ==
    /\ pc = "main"
    /\ pc' = IF is_url(call.path) \/ call.is_file THEN "read" ELSE "crashed"
    /\ UNCHANGED <<dim_selections, ds, selected_var, checklist, controls, store, stats_panel, map_panel,
                   call, ret, printed>>

\* read_dataset_metadata tries the next engine
TryEngine(outcome) ==
    /\ pc = "read"
    /\ LET r == read_dataset_metadata(call.engine, outcome)
       IN  /\ call' = [call EXCEPT !.engine = @ + 1,
                                   !.tried = Append(@, engines[call.engine]),
                                   !.outcomes = Append(@, outcome)]
           /\ printed' = printed \o r.lines
           /\ ret' = r.value
           /\ ds' = IF r.value.t = "dataset" THEN ExampleDataset ELSE NoneV
           /\ pc' = IF r.return THEN "layout" ELSE "read"
    /\ UNCHANGED <<dim_selections, selected_var, checklist, controls, store, stats_panel, map_panel>>

\* ZarrDataViewerApp.__init__ after the read: the layout, and the callbacks
\* only when a dataset was loaded
SetupLayout ==
    /\ pc = "layout"
    /\ pc' = setup_layout(ret)
    /\ UNCHANGED <<dim_selections, ds, selected_var, checklist, controls, store, stats_panel, map_panel,
                   call, ret, printed>>

NextStartup ==
    \/ Main
    \/ \E outcome \in {"ok"} \cup StartupErrors : TryEngine(outcome)
    \/ SetupLayout

SpecStartup == InitStartup /\ [][NextStartup]_vars

-----------------------------------------------------------------------------
(* Single handler calls: SpecResolve *)

\* every value a control can be given in the browser
ControlValues(c) ==
    IF IsSlider(c)
    THEN {ListV(q[1], q[2]) : q \in {r \in (c.min..c.max) \X (c.min..c.max) : r[1] <= r[2]}}
    ELSE {NoneV} \cup {IntV(c.options[k].value) : k \in DOMAIN c.options}

\* the controls ctl with every assignment of values to them
ConfigsOf(ctl) ==
    LET all == UNION {ControlValues(ctl[i]) : i \in DOMAIN ctl}
        fits == {g \in [DOMAIN ctl -> all] : \A i \in DOMAIN ctl : g[i] \in ControlValues(ctl[i])}
    IN  {[i \in DOMAIN ctl |-> [ctl[i] EXCEPT !.value = g[i]]] : g \in fits}

\* every value the checklist of variable w can have, in option order
ChecklistValues(d, w) ==
    {SelectSeq(VarDims(d, w), LAMBDA x : x \in S) : S \in SUBSET Range(VarDims(d, w))}

\* every state of the controls that picking w, ticking dimensions and
\* editing the controls can produce
ControlConfigs(d, w) ==
    IF update_dimension_checklist(d, w).kind = "checklist"
    THEN UNION {ConfigsOf(update_dimension_controls(d, value, w)) : value \in ChecklistValues(d, w)}
    ELSE {<<>>}

\* every value of the store: None or {} of the first load, or what
\* store_selected_dimensions wrote for some state of the controls
ProducibleStores(d) ==
    {NoneV, EmptyDict}
    \cup {store_user_selection(d, w, c).data : <<w, c>> \in
             UNION {{<<w, c>> : c \in ControlConfigs(d, w)} : w \in DataVars(d)}}

\* the clicks on one of the two buttons: any variable of the dropdown with
\* any store, under any environment
ResolveCalls(d, variables) ==
    {c \in [fn : {"display_data", "display_plot"}, n_clicks : 1..MaxClicks, var : variables,
            selected_dims : ProducibleStores(d), env : Envs, render : Renders] :
        c.render # "ok" => c.fn = "display_plot" /\ (StdOk(c.env) \/ CmemsOk(c.env))}

\* how far outside 0..n-1 the indices of a handed store lie
MaxOutside == 1

\* an index of the store outside 0..n-1
RangeOutside(v, n) == v.v[1] < 0 \/ v.v[2] >= n
IndexOutside(v, n) == v.v < 0 \/ v.v >= n
\* The store is State read from the browser: stores no control of the page
\* produces, one entry with an index outside the coordinate array.
OutsideStores(d, w) ==
    UNION {{DictV(<<[k |-> VarDims(d, w)[j], v |-> v]>>) :
              v \in IF IsSpatial(VarDims(d, w)[j])
                    THEN {ListV(q[1], q[2]) :
                            q \in {r \in (-MaxOutside..(Len(Values(d, VarDims(d, w)[j])) - 1 + MaxOutside))
                                         \X (-MaxOutside..(Len(Values(d, VarDims(d, w)[j])) - 1 + MaxOutside)) :
                                    r[1] <= r[2]
                                    /\ RangeOutside(ListV(r[1], r[2]), Len(Values(d, VarDims(d, w)[j])))}}
                    ELSE {IntV(i) : i \in (-MaxOutside..(-1))
                                        \cup (Len(Values(d, VarDims(d, w)[j]))
                                              ..(Len(Values(d, VarDims(d, w)[j])) - 1 + MaxOutside))}} :
           j \in DOMAIN VarDims(d, w)}
OutsideCalls(d, w) ==
    [fn : {"display_data", "display_plot"}, n_clicks : 1..MaxClicks, var : {w},
     selected_dims : OutsideStores(d, w), env : Envs, render : {"ok"}]

InitResolve ==
    /\ pc = "call"
    /\ \/ ds = ExampleDataset /\ call \in ResolveCalls(ExampleDataset, DataVars(ExampleDataset))
       \/ ds = ShuffledDataset /\ call \in ResolveCalls(ShuffledDataset, {"temp"})
       \/ ds = ExampleDataset /\ call \in OutsideCalls(ExampleDataset, "temp")
    /\ ret = NoneV
    /\ printed = <<>>
    /\ selected_var = call.var
    /\ checklist = NoneV
    /\ controls = <<>>
    /\ store = call.selected_dims
    /\ stats_panel = NoneV
    /\ map_panel = NoneV
    /\ dim_selections = EmptyDict

\* what a handler's request printed: the lines of its fetch, if it made one
FetchPrinted(f) == IF f.t = "none" THEN <<>> ELSE f.printed

\* display_data runs on the call
CallDisplayData ==
    /\ pc = "call"
    /\ call.fn = "display_data"
    /\ ret' = display_data(ds, call.n_clicks, call.var, call.selected_dims, call.env)
    /\ printed' = FetchPrinted(ret'.fetch)
    /\ stats_panel' = PanelView(ret'.panel)
    /\ pc' = "done"
    /\ UNCHANGED <<dim_selections, ds, selected_var, checklist, controls, store, map_panel, call>>

\* display_plot runs on the call
CallDisplayPlot ==
    /\ pc = "call"
    /\ call.fn = "display_plot"
    /\ ret' = display_plot(ds, call.n_clicks, call.var, call.selected_dims, call.env, call.render)
    /\ printed' = FetchPrinted(ret'.plot.fetch)
    /\ map_panel' = [children |-> "img", src |-> SrcView(ret'.src), style |-> ret'.style]
    /\ pc' = "done"
    /\ UNCHANGED <<dim_selections, ds, selected_var, checklist, controls, store, stats_panel, call>>

NextResolve == CallDisplayData \/ CallDisplayPlot

SpecResolve == InitResolve /\ [][NextResolve]_vars

-----------------------------------------------------------------------------
(* Single calls of the DimensionSelection callbacks: SpecBuilder *)

MaxN == 8
MaxDims == 3

\* the ways a coordinate array of the runs is stored
Orders == {"ascending", "descending", "rotated"}
\* n distinct coordinate values, none half-way between two 4-decimal numbers
Coord(n, order) ==
    [i \in 1..n |->
        LET k == IF order = "ascending" THEN i - 1
                 ELSE IF order = "descending" THEN n - i
                 ELSE (i + n - 2) % n
        IN  k * 250002 - 500000]

\* v(time, name, lon) with n values along name, and w(time, lon)
SliderDataset(name, n, order) ==
    [dims |-> [x \in {"v", "w"} |-> IF x = "v" THEN <<time, name, lon>> ELSE <<time, lon>>],
     coords |-> [c \in {time, name, lon} |->
                   IF c = name THEN Coord(n, order)
                   ELSE IF c = time THEN <<0, 100000>>
                   ELSE <<0, 1000000>>]]
SliderDatasets ==
    {SliderDataset(name, n, order) : <<name, n, order>> \in {lat, lat_b} \X (1..MaxN) \X Orders}

\* the names the dimensions of the checklist runs are drawn from
DimNames == {lat, lon, time, LAT, Lon, depth, lat_b}
DimSeqs ==
    UNION {{q \in [1..k -> DimNames] : \A i, j \in 1..k : i # j => q[i] # q[j]} : k \in 0..MaxDims}
\* one variable v with the given dimensions
ChecklistDatasets ==
    {[dims |-> [x \in {"v"} |-> q], coords |-> [c \in Range(q) |-> <<0>>]] : q \in DimSeqs}

\* store_selected_dimensions on the controls built for temp, the dropdown
\* showing temp or, after a variable without checklist was picked, prof
StoreCalls ==
    [fn : {"store_selected_dimensions"}, var : DataVars(ExampleDataset),
     ctl : ControlConfigs(ExampleDataset, "temp")]
\* update_slider_output for the slider of the second dimension of v: any
\* value, under any variable of the dropdown, triggered by the slider or not
SliderCalls(d) ==
    [fn : {"update_slider_output"},
     slider_value : {NoneV} \cup {ListV(q[1], q[2]) :
                        q \in (-1..Len(Values(d, VarDims(d, "v")[2]))) \X (-1..Len(Values(d, VarDims(d, "v")[2])))},
     var : {"None"} \cup DataVars(d),
     trig : {[t |-> "none"], [t |-> "id", index |-> VarDims(d, "v")[2]]}]
ControlsCalls(d) ==
    [fn : {"update_dimension_controls"}, var : {"v"}, selected_dims : ChecklistValues(d, "v")]
ChecklistCalls ==
    [fn : {"update_dimension_checklist"}, var : {"None", "[]", "v"}]

InitBuilder ==
    /\ pc = "call"
    /\ \/ ds = ExampleDataset /\ call \in StoreCalls
       \/ ds \in SliderDatasets /\ call \in SliderCalls(ds)
       \/ ds \in SliderDatasets /\ call \in ControlsCalls(ds)
       \/ ds \in ChecklistDatasets /\ call \in ChecklistCalls
    /\ ret = NoneV
    /\ printed = <<>>
    /\ selected_var = call.var
    /\ checklist = NoneV
    /\ controls = IF call.fn = "store_selected_dimensions" THEN call.ctl ELSE <<>>
    /\ store = NoneV
    /\ stats_panel = NoneV
    /\ map_panel = NoneV
    /\ dim_selections = EmptyDict

\* store_selected_dimensions runs on the call
CallStoreSelectedDimensions ==
    /\ pc = "call"
    /\ call.fn = "store_selected_dimensions"
    /\ ret' = store_user_selection(ds, call.var, call.ctl)
    /\ store' = StoreAfter(ds, call.var, call.ctl, store)
    /\ dim_selections' = DimSelectionsAfter(ds, call.var, call.ctl, dim_selections)
    /\ pc' = "done"
    /\ UNCHANGED <<ds, selected_var, checklist, controls, stats_panel, map_panel, call, printed>>

\* update_slider_output runs on the call
CallUpdateSliderOutput ==
    /\ pc = "call"
    /\ call.fn = "update_slider_output"
    /\ ret' = update_slider_output(ds, call.slider_value, call.var, call.trig)
    /\ pc' = "done"
    /\ UNCHANGED <<dim_selections, ds, selected_var, checklist, controls, store, stats_panel, map_panel, call,
                   printed>>

\* update_dimension_controls runs on the call
CallUpdateDimensionControls ==
    /\ pc = "call"
    /\ call.fn = "update_dimension_controls"
    /\ ret' = update_dimension_controls(ds, call.selected_dims, call.var)
    /\ controls' = ret'
    /\ pc' = "done"
    /\ UNCHANGED <<dim_selections, ds, selected_var, checklist, store, stats_panel, map_panel, call, printed>>

\* update_dimension_checklist runs on the call
CallUpdateDimensionChecklist ==
    /\ pc = "call"
    /\ call.fn = "update_dimension_checklist"
    /\ ret' = update_dimension_checklist(ds, call.var)
    /\ checklist' = IF ret'.kind = "checklist" THEN [t |-> "value", v |-> ret'.value] ELSE NoneV
    /\ pc' = "done"
    /\ UNCHANGED <<dim_selections, ds, selected_var, controls, store, stats_panel, map_panel, call, printed>>

NextBuilder ==
    \/ CallStoreSelectedDimensions
    \/ CallUpdateSliderOutput
    \/ CallUpdateDimensionControls
    \/ CallUpdateDimensionChecklist

SpecBuilder == InitBuilder /\ [][NextBuilder]_vars

-----------------------------------------------------------------------------
(* Several browser sessions on one server process: SpecSessions *)

NumSessions == 2
Sessions == 1..NumSessions

\* temp(LAT:2, lon:1) alone
SessionDataset ==
    [dims |-> [v \in {"temp"} |-> <<LAT, lon>>],
     coords |-> [n \in {LAT, lon} |-> IF n = LAT THEN <<2000000, 1000000>> ELSE <<0>>]]
\* the storage answers of the session runs: every call succeeds, or none does
SessionEnvs == {e \in Envs : StdOk(e) \/ (~StdOpened(e) /\ ~CmemsOk(e))}

\* Each browser holds its own dropdown value, checklist, controls, store and
\* panels; the server holds one DimensionSelection, so one dim_selections.
InitSessions ==
    /\ ds = SessionDataset
    /\ pc = "ui"
    /\ selected_var = [s \in Sessions |-> "None"]
    /\ checklist = [s \in Sessions |-> NoneV]
    /\ controls = [s \in Sessions |-> <<>>]
    /\ store = [s \in Sessions |-> NoneV]
    /\ stats_panel = [s \in Sessions |-> [kind |-> "placeholder"]]
    /\ map_panel = [s \in Sessions |->
                      [children |-> "img", src |-> [kind |-> "blank"], style |-> "none"]]
    /\ dim_selections = EmptyDict
    /\ call = NoneV
    /\ ret = NoneV
    /\ printed = <<>>

\* store_selected_dimensions for the request of session s: the store of that
\* browser, and self.dim_selections of the server
SessionStore(s, var, ctl) ==
    /\ store' = [store EXCEPT ![s] = StoreAfter(ds, var, ctl, store[s])]
    /\ dim_selections' = DimSelectionsAfter(ds, var, ctl, dim_selections)

\* session s picks a variable or clears the dropdown
SessionPickVariable(s, v) ==
    /\ v # selected_var[s]
    /\ v = "None" => Truthy(selected_var[s])
    /\ selected_var' = [selected_var EXCEPT ![s] = v]
    /\ LET cl == update_dimension_checklist(ds, v)
           ctl == update_dimension_controls(ds, cl.value, v)
       IN  IF cl.kind = "checklist"
           THEN /\ checklist' = [checklist EXCEPT ![s] = [t |-> "value", v |-> cl.value]]
                /\ controls' = [controls EXCEPT ![s] = ctl]
                /\ SessionStore(s, v, ctl)
           ELSE /\ checklist' = [checklist EXCEPT ![s] = NoneV]
                /\ UNCHANGED <<controls, store, dim_selections>>
    /\ UNCHANGED <<ds, pc, stats_panel, map_panel, call, ret, printed>>

\* session s ticks or unticks a dimension
SessionToggleChecklist(s, dim) ==
    /\ checklist[s].t = "value"
    /\ dim \in Range(VarDims(ds, selected_var[s]))
    /\ LET value == Toggled(VarDims(ds, selected_var[s]), checklist[s].v, dim)
           ctl == update_dimension_controls(ds, value, selected_var[s])
       IN  /\ checklist' = [checklist EXCEPT ![s] = [t |-> "value", v |-> value]]
           /\ controls' = [controls EXCEPT ![s] = ctl]
           /\ SessionStore(s, selected_var[s], ctl)
    /\ UNCHANGED <<ds, pc, selected_var, stats_panel, map_panel, call, ret, printed>>

\* session s gives control i the value v
SessionEditControl(s, i, v) ==
    /\ v \in ControlValues(controls[s][i])
    /\ controls[s][i].value # v
    /\ controls' = [controls EXCEPT ![s][i].value = v]
    /\ SessionStore(s, selected_var[s], controls'[s])
    /\ UNCHANGED <<ds, pc, selected_var, checklist, stats_panel, map_panel, call, ret, printed>>

\* session s clicks 'Max/Min/Mean/Med/STDEV'
SessionShowStats(s, n_clicks, env) ==
    /\ stats_panel' = [stats_panel EXCEPT
                         ![s] = PanelView(display_data(ds, n_clicks, selected_var[s], store[s], env).panel)]
    /\ UNCHANGED <<ds, pc, selected_var, checklist, controls, store, map_panel, call, ret,
                   printed, dim_selections>>

\* session s clicks 'Show Plot'
SessionShowPlot(s, n_clicks, env, render) ==
    /\ map_panel[s].children = "img"
    /\ LET r == display_plot(ds, n_clicks, selected_var[s], store[s], env, render)
       IN  map_panel' = [map_panel EXCEPT ![s].src = SrcView(r.src), ![s].style = r.style]
    /\ UNCHANGED <<ds, pc, selected_var, checklist, controls, store, stats_panel, call, ret,
                   printed, dim_selections>>

\* session s clicks 'Reset'
SessionReset(s, n_clicks) ==
    /\ LET r == reset_store(n_clicks)
       IN  /\ r.update
           /\ store' = [store EXCEPT ![s] = r.store]
           /\ selected_var' = [selected_var EXCEPT ![s] = r.variable]
           /\ controls' = [controls EXCEPT ![s] = r.controls]
           /\ stats_panel' = [stats_panel EXCEPT ![s] = r.stats]
           /\ map_panel' = [map_panel EXCEPT ![s].children = r.map_children,
                                             ![s].src = [kind |-> "blank"]]
           /\ checklist' = [checklist EXCEPT ![s] = NoneV]
    /\ UNCHANGED <<ds, pc, call, ret, printed, dim_selections>>

\* what session s can do
SessionNext(s) ==
    \/ \E v \in DataVars(ds) \cup {"None"} : SessionPickVariable(s, v)
    \/ \E dim \in DOMAIN ds.coords : SessionToggleChecklist(s, dim)
    \/ \E i \in DOMAIN controls[s] : \E v \in ControlValues(controls[s][i]) :
          SessionEditControl(s, i, v)
    \/ \E n \in 1..MaxClicks : \E env \in SessionEnvs : SessionShowStats(s, n, env)
    \/ \E n \in 1..MaxClicks : \E env \in SessionEnvs : SessionShowPlot(s, n, env, "ok")
    \/ \E n \in 1..MaxClicks : SessionReset(s, n)

NextSessions == \E s \in Sessions : SessionNext(s)

SpecSessions == InitSessions /\ [][NextSessions]_vars

-----------------------------------------------------------------------------
(* Repeated clicks on the two buttons: SpecClicks *)

MaxFetches == 2

\* the stores the two sliders of temp can leave
ClickStores ==
    {store_user_selection(UiDataset, "temp", c).data :
        c \in ConfigsOf(update_dimension_controls(UiDataset, <<LAT, lon>>, "temp"))}

\* temp is selected and its sliders are set; ret is the record of the
\* requests made so far, printed what they printed
InitClicks ==
    /\ ds = UiDataset
    /\ pc = "ui"
    /\ selected_var = "temp"
    /\ checklist = [t |-> "value", v |-> <<LAT, lon>>]
    /\ store \in ClickStores
    /\ controls \in {c \in ConfigsOf(update_dimension_controls(UiDataset, <<LAT, lon>>, "temp")) :
                        store_user_selection(UiDataset, "temp", c).data = store}
    /\ stats_panel = [kind |-> "placeholder"]
    /\ map_panel = [children |-> "img", src |-> [kind |-> "blank"], style |-> "none"]
    /\ dim_selections = store
    /\ call = NoneV
    /\ ret = <<>>
    /\ printed = <<>>

\* what is recorded of one request: the button, the answers of the storage
\* calls during it, the tiers it went through and whether it displayed
Request(fn, env, f, shown) ==
    [fn |-> fn, env |-> env, tiers |-> f.tiers, via |-> f.via, lines |-> f.printed, shown |-> shown]

\* the n-th click on 'Max/Min/Mean/Med/STDEV'
ClickShowStats(env) ==
    /\ Len(ret) < MaxFetches
    /\ LET r == display_data(ds, Len(ret) + 1, selected_var, store, env)
       IN  /\ stats_panel' = PanelView(r.panel)
           /\ ret' = Append(ret, Request("display_data", env, r.fetch, r.panel.kind = "stats"))
           /\ printed' = printed \o FetchPrinted(r.fetch)
    /\ UNCHANGED <<ds, pc, selected_var, checklist, controls, store, map_panel, call,
                   dim_selections>>

\* the n-th click on 'Show Plot'
ClickShowPlot(env, render) ==
    /\ Len(ret) < MaxFetches
    /\ render # "ok" => (StdOk(env) \/ CmemsOk(env))
    /\ LET r == display_plot(ds, Len(ret) + 1, selected_var, store, env, render)
       IN  /\ map_panel' = [map_panel EXCEPT !.src = SrcView(r.src), !.style = r.style]
           /\ ret' = Append(ret, Request("display_plot", env, r.plot.fetch, r.src.kind = "image"))
           /\ printed' = printed \o FetchPrinted(r.plot.fetch)
    /\ UNCHANGED <<ds, pc, selected_var, checklist, controls, store, stats_panel, call,
                   dim_selections>>

NextClicks ==
    \/ \E env \in Envs : ClickShowStats(env)
    \/ \E env \in Envs : \E render \in Renders : ClickShowPlot(env, render)

SpecClicks == InitClicks /\ [][NextClicks]_vars

-----------------------------------------------------------------------------
(* The claims *)

\* the fetch and the selection loop's result of the finished call
Fetched == IF call.fn = "display_data" THEN ret.fetch ELSE ret.plot.fetch
Built == IF call.fn = "display_data" THEN ret.built ELSE ret.plot.built
Resolved == pc = "done" /\ Fetched.t = "fetch" /\ Fetched.data.t = "array"

\* the spatial index ranges of the call's store that lie inside their dimension
RangeItems ==
    {i \in DOMAIN call.selected_dims.items :
        LET it == call.selected_dims.items[i]
        IN  /\ IsSpatial(it.k) /\ it.v.t = "list" /\ HasCoord(ds, call.var, it.k)
            /\ 0 <= it.v.v[1] /\ it.v.v[1] <= it.v.v[2] /\ it.v.v[2] < Len(Values(ds, it.k))}

\* C1: with IndexRange(start, end), 0 <= start <= end < n, stored for a
\* spatial dimension, the array ShowStats/ShowPlot resolve has exactly
\* end - start + 1 coordinates along that dimension.
C1_InclusiveRange ==
    Resolved =>
        \A i \in RangeItems :
            LET it == call.selected_dims.items[i]
            IN  Len(AxisOf(Fetched.data, it.k).values) = it.v.v[2] - it.v.v[1] + 1

\* the dataset d with every coordinate array stored sorted
SortedTwin(d) == [d EXCEPT !.coords = [n \in DOMAIN d.coords |-> sorted(d.coords[n])]]
\* what the same call resolves on the sorted twin of the dataset
TwinFetched ==
    IF call.fn = "display_data"
    THEN display_data(SortedTwin(ds), call.n_clicks, call.var, call.selected_dims, call.env).fetch
    ELSE display_plot(SortedTwin(ds), call.n_clicks, call.var, call.selected_dims, call.env,
                      call.render).plot.fetch

\* C2: the coordinate values an IndexRange selects on a spatial dimension are
\* those at the sorted positions, so a dataset and the dataset with the same
\* coordinate values stored in another order select the same set of values
\* for the same IndexRange.
C2_StorageOrderInvariant ==
    Resolved =>
        \A i \in RangeItems :
            LET k == call.selected_dims.items[i].k
            IN  Range(AxisOf(Fetched.data, k).values) = Range(AxisOf(TwinFetched.data, k).values)

\* C5, as claimed: the engines are tried in the order zarr, netcdf4, none
\* after the first that opens, whose dataset is returned; when both raise,
\* the value returned is a failure that enumerates both causes.
StartupDone == pc \in {"layout", "serving", "error_page"}
C5_TriedInOrder ==
    /\ call.tried = SubSeq(<<"zarr", "netcdf4">>, 1, Len(call.tried))
    /\ \A i \in 1..(Len(call.outcomes) - 1) : call.outcomes[i] # "ok"
    /\ \A i \in DOMAIN call.outcomes :
          call.outcomes[i] = "ok" => ret = [t |-> "dataset", engine |-> <<"zarr", "netcdf4">>[i]]
C5_AllRaised == Len(call.outcomes) = 2 /\ \A i \in DOMAIN call.outcomes : call.outcomes[i] # "ok"
C5_FailureEnumeratesCauses ==
    StartupDone =>
        /\ C5_TriedInOrder
        /\ ~C5_AllRaised => ret.t = "dataset"
        /\ C5_AllRaised => ret.t = "failure" /\ ret.causes = call.outcomes

\* C5, amended: the engines are tried in the order zarr, netcdf4, none after
\* the first that opens, whose dataset is returned; when both raise, None is
\* returned (never a dataset) and the two causes are only printed, one line
\* each in the order of the engines, before a line that names the engines.
C5_OpenFallback ==
    StartupDone =>
        /\ C5_TriedInOrder
        /\ ~C5_AllRaised => ret.t = "dataset" /\ ds # NoneV
        /\ C5_AllRaised =>
              /\ ret = NoneV
              /\ ds = NoneV
              /\ printed = <<[text |-> "Failed to open file", err |-> call.outcomes[1]],
                             [text |-> "Failed to open file", err |-> call.outcomes[2]],
                             [text |-> "Engines failed to open file",
                              engines |-> <<"zarr", "netcdf4">>]>>
C5_Witness ==
    pc = "error_page" /\ C5_AllRaised /\ call.outcomes[1] # call.outcomes[2]

\* C6: the authenticated opener is called if and only if the generic open and
\* subset raised (also when no engine opened), and after it; None is returned
\* if and only if both tiers raised, else the array of the first tier that
\* succeeded.
GenericRaised ==
    ~StdOpened(call.env) \/ ~SelOk(ds, call.var, Built.selection) \/ call.env.compute # "ok"
AuthRaised ==
    ~SelOk(ds, call.var, Built.selection) \/ ~CmemsOk(call.env)
C6_TwoTierFallback ==
    (pc = "done" /\ Fetched.t = "fetch") =>
        LET f == Fetched
        IN  /\ f.tiers[1].tier = "standard"
            /\ Len(f.tiers) = IF GenericRaised THEN 2 ELSE 1
            /\ Len(f.tiers) = 2 => f.tiers[2].tier = "cmems"
            /\ f.tiers[1].ok = ~GenericRaised
            /\ Len(f.tiers) = 2 => f.tiers[2].ok = ~AuthRaised
            /\ (f.data = NoneV) = (GenericRaised /\ AuthRaised)
            /\ ~GenericRaised => f.via = "standard" /\ f.data.t = "array"
            /\ (GenericRaised /\ ~AuthRaised) => f.via = "cmems" /\ f.data.t = "array"
C6_Witness ==
    /\ pc = "done"
    /\ Fetched.t = "fetch"
    /\ ~StdOpened(call.env)
    /\ Fetched.tiers[1].err = "UnboundLocalError"
    /\ Fetched.via = "cmems"

\* C10: when the subset resolution fails (the selection loop raises, or both
\* tiers raise), the error panel of ShowStats carries the text of the
\* exception that caused the failure.
C10_OriginalErrorText ==
    (pc = "done" /\ call.fn = "display_data") =>
        /\ ~ret.built.ok => ret.panel = [kind |-> "error", text |-> ret.built.err]
        /\ (ret.fetch.t = "fetch" /\ ret.fetch.data = NoneV) =>
              /\ ret.panel.kind = "error"
              /\ \E i \in DOMAIN ret.fetch.tiers : ret.panel.text = ret.fetch.tiers[i].err

\* C4: from any state, Reset leaves the store empty, no variable chosen, and
\* the statistics panel and the map panel as they are in the initial state.
C4_ResetRestoresInitial ==
    [][(\E n \in 1..MaxClicks : Reset(n)) =>
          /\ store' \in {NoneV, EmptyDict}
          /\ selected_var' = "None"
          /\ stats_panel' = [kind |-> "placeholder"]
          /\ map_panel' = [children |-> "img", src |-> [kind |-> "blank"], style |-> "none"]]_vars

StoreDone == pc = "done" /\ call.fn = "store_selected_dimensions"

\* C3: the selection map rebuilt from the controls has, for every range
\* slider, dimension -> [start, end], for every dropdown with a chosen index
\* i (any i in 0..n-1), dimension -> i, and no other key.
C3_SelectionMapComplete ==
    (StoreDone /\ ret.ok) =>
        /\ \A i \in DOMAIN call.ctl :
              LET c == call.ctl[i]
              IN  IF IsSlider(c) \/ c.value.t = "int"
                  THEN c.dim \in Keys(ret.data) /\ Get(ret.data, c.dim) = c.value
                  ELSE c.dim \notin Keys(ret.data)
        /\ Keys(ret.data) \subseteq {call.ctl[i].dim : i \in DOMAIN call.ctl}

SliderDone == pc = "done" /\ call.fn = "update_slider_output"
SliderDim == VarDims(ds, "v")[2]
\* x is the coordinate of the slider's dimension at position i of the sorted
\* values: exactly i coordinates are smaller
AtSortedPosition(x, i) ==
    /\ x \in Range(Values(ds, SliderDim))
    /\ Cardinality({y \in Range(Values(ds, SliderDim)) : y < x}) = i
\* the display reports the sorted values at the two positions of the slider
ReportsSortedValues ==
    /\ ret.kind = "range"
    /\ \E x, y \in Range(Values(ds, SliderDim)) :
          /\ AtSortedPosition(x, call.slider_value.v[1])
          /\ AtSortedPosition(y, call.slider_value.v[2])
          /\ ret.start = Fmt4(x)
          /\ ret.end = Fmt4(y)
InRange ==
    /\ 0 <= call.slider_value.v[1]
    /\ call.slider_value.v[1] <= call.slider_value.v[2]
    /\ call.slider_value.v[2] < Len(Values(ds, SliderDim))
OutOfBounds ==
    call.slider_value.v[1] < 0 \/ call.slider_value.v[2] >= Len(Values(ds, SliderDim))
Returned == ret.kind \in {"blank", "text", "range"}

\* C7, as claimed: for a slider position (start, end) on a dimension with n
\* coordinates, 0 <= start <= end < n makes the display report the sorted
\* values at start and end, start < 0 or end >= n makes it report the
\* out-of-bounds message, and the callback never raises.
C7_SliderDisplay ==
    (SliderDone /\ call.slider_value.t = "list") =>
        /\ Returned
        /\ InRange => ReportsSortedValues
        /\ OutOfBounds => ret = [kind |-> "text", text |-> "Index out of bounds"]

\* C7, amended: the callback never raises.  When a variable that has the
\* dimension is selected and the callback is triggered by the slider, whose
\* id parses, 0 <= start <= end < n makes the display report the sorted
\* values at start and end with four decimals and start < 0 or end >= n the
\* out-of-bounds message.  Otherwise the display is empty (no variable or no
\* value), 'Make a selection' (not triggered) or 'Error updating slider
\* output' (the variable lacks the dimension, or the id does not parse).
SliderApplies ==
    /\ call.trig.t = "id"
    /\ \A i \in DOMAIN call.trig.index : call.trig.index[i] \notin {".", "'"}
    /\ call.var \in DataVars(ds)
    /\ call.trig.index \in Range(VarDims(ds, call.var))
C7_SliderDisplayOfOwnVariable ==
    SliderDone =>
        /\ Returned
        /\ IF call.var = "None" \/ call.slider_value.t = "none"
           THEN ret = [kind |-> "blank"]
           ELSE IF call.trig.t = "none"
           THEN ret = [kind |-> "text", text |-> "Make a selection"]
           ELSE IF ~SliderApplies
           THEN ret = [kind |-> "text", text |-> "Error updating slider output"]
           ELSE /\ InRange => ReportsSortedValues
                /\ OutOfBounds => ret = [kind |-> "text", text |-> "Index out of bounds"]
C7_Witness ==
    /\ SliderDone
    /\ call.slider_value.t = "list"
    /\ call.var # "None"
    /\ SliderApplies
    /\ InRange
    /\ call.slider_value.v[1] < call.slider_value.v[2]
    /\ Values(ds, SliderDim) # sorted(Values(ds, SliderDim))
    /\ ReportsSortedValues

ControlsDone == pc = "done" /\ call.fn = "update_dimension_controls"

\* C8: the range slider of a spatial dimension with n >= 1 coordinates has
\* min 0, max n - 1 and the initial value (floor(0.25 * (n - 1)),
\* floor(0.75 * (n - 1))), a pair with 0 <= start <= end <= n - 1; every
\* spatial dimension of the checklist value gets such a slider.
C8_SliderDefaults ==
    ControlsDone =>
        \A i \in DOMAIN call.selected_dims :
            IsSpatial(call.selected_dims[i]) =>
                LET c == ret[i]
                    n == Len(Values(ds, call.selected_dims[i]))
                    start == c.value.v[1]
                    end == c.value.v[2]
                IN  /\ c.type = "slider"
                    /\ c.dim = call.selected_dims[i]
                    /\ c.min = 0
                    /\ c.max = n - 1
                    /\ 4 * start <= n - 1 /\ n - 1 < 4 * start + 4
                    /\ 4 * end <= 3 * (n - 1) /\ 3 * (n - 1) < 4 * end + 4
                    /\ 0 <= start /\ start <= end /\ end <= n - 1
C8_Witness ==
    /\ ControlsDone
    /\ \E i \in DOMAIN call.selected_dims :
          /\ IsSpatial(call.selected_dims[i])
          /\ Len(Values(ds, call.selected_dims[i])) = 6
          /\ ret[i].value = ListV(1, 3)
          /\ ret[i].max = 5

ChecklistDone == pc = "done" /\ call.fn = "update_dimension_checklist"
\* the three letters, in either case, somewhere in the name
HasLetters(dim, a, b, c) ==
    \E i \in 1..(Len(dim) - 2) : dim[i] \in a /\ dim[i + 1] \in b /\ dim[i + 2] \in c
LatLike(dim) == HasLetters(dim, {"l", "L"}, {"a", "A"}, {"t", "T"})
LonLike(dim) == HasLetters(dim, {"l", "L"}, {"o", "O"}, {"n", "N"})

\* C9: for a selected variable without a dimension whose name contains 'lat'
\* or without one whose name contains 'lon' (in any case), the generator
\* returns the error text and no checklist; with both, a checklist over all
\* dimensions whose checked set is exactly the dimensions with 'lat' or
\* 'lon' in the name.
C9_ChecklistNeedsLatLon ==
    (ChecklistDone /\ Truthy(call.var)) =>
        LET dims == VarDims(ds, call.var)
            both == (\E i \in DOMAIN dims : LatLike(dims[i])) /\ (\E i \in DOMAIN dims : LonLike(dims[i]))
        IN  IF both
            THEN /\ ret.kind = "checklist"
                 /\ ret.options = dims
                 /\ Range(ret.value) = {x \in Range(dims) : LatLike(x) \/ LonLike(x)}
                 /\ Len(ret.value) = Cardinality(Range(ret.value))
            ELSE /\ ret.kind = "error"
                 /\ ret.text = "Error: Latitude and/or Longitude dimensions are not present in the selected variable."
C9_Witness ==
    /\ ChecklistDone
    /\ call.var = "v"
    /\ VarDims(ds, "v") = <<time, LAT, Lon>>
    /\ ret.kind = "checklist"
    /\ ret.value = <<LAT, Lon>>

\* the selected variable is one of the dataset without a latitude-like or
\* without a longitude-like dimension
LacksSpatial(d, var) ==
    /\ HasVar(d, var)
    /\ \/ \A i \in DOMAIN VarDims(d, var) : ~LatLike(VarDims(d, var)[i])
       \/ \A i \in DOMAIN VarDims(d, var) : ~LonLike(VarDims(d, var)[i])

\* C11: while the selected variable lacks a latitude-like or a longitude-like
\* dimension, no ShowStats step leaves a statistics record in the panel and
\* no ShowPlot step leaves a visible image, whatever the store holds.
C11_MissingSpatialBlocks ==
    [][LacksSpatial(ds, selected_var) =>
          /\ (\E n \in 1..MaxClicks : \E env \in Envs : ShowStats(n, env))
                => stats_panel'.kind # "stats"
          /\ (\E n \in 1..MaxClicks : \E env \in Envs : \E render \in Renders :
                 ShowPlot(n, env, render))
                => ~(map_panel'.style = "block" /\ map_panel'.src.kind = "image")]_vars

\* C12: in every state the user can reach, every dimension key of the store
\* is a dimension of the variable the dropdown shows.
C12_StoreKeysOfSelectedVariable ==
    (pc = "ui" /\ store.t = "dict") =>
        \A k \in Keys(store) : HasCoord(ds, selected_var, k)

\* C13: the variable choice and the selection map are session-scoped: a step
\* of one session changes neither the variable or the store of another
\* session nor any selection state on the server that the handlers of the
\* other sessions can reach.
C13_SessionScoped ==
    [][\A s \in Sessions :
          SessionNext(s) =>
              /\ \A o \in Sessions \ {s} :
                    selected_var'[o] = selected_var[o] /\ store'[o] = store[o]
              /\ dim_selections' = dim_selections]_vars

\* a step in which the user edits a slider or a dropdown
ControlEdit ==
    \/ \E i \in DOMAIN controls : \E a, b \in 0..MaxIndex(ds) : MoveSlider(i, a, b)
    \/ \E i \in DOMAIN controls : \E v \in {NoneV} \cup {IntV(k) : k \in 0..MaxIndex(ds)} :
          ChooseDropdown(i, v)

\* C14: no user action lets an exception escape its handler.  The handlers
\* of ShowStats, ShowPlot and the slider display catch everything and Reset
\* and the checklist raise nothing, so the claim is that the one handler
\* without a try block, store_selected_dimensions, never raises when the
\* user edits a control.
C14_NoEscapingException ==
    [][ControlEdit => store_user_selection(ds, selected_var, controls').ok]_vars

\* the entries of the call's store that hold an index outside 0..n-1
OutsideItems ==
    {i \in DOMAIN call.selected_dims.items :
        LET it == call.selected_dims.items[i]
        IN  /\ HasCoord(ds, call.var, it.k)
            /\ \/ it.v.t = "list" /\ RangeOutside(it.v, Len(Values(ds, it.k)))
               \/ it.v.t = "int" /\ IndexOutside(it.v, Len(Values(ds, it.k)))}

\* C15: when the store handed to ShowStats or ShowPlot holds an index
\* outside 0..n-1 of its dimension, the action fails: no statistics and no
\* image are produced from a silently adjusted selection.
C15_OutOfRangeFails ==
    (pc = "done" /\ call.selected_dims.t = "dict" /\ OutsideItems # {}) =>
        IF call.fn = "display_data"
        THEN ret.panel.kind = "error"
        ELSE ret.src.kind # "image" /\ ret.style = "none"

\* C16: every entry of the query built from the store is expressed in
\* coordinate values of its dimension: for an IndexRange the coordinates at
\* the storage positions start..end-1, for SingleIndex(i) the coordinate at
\* storage position i; no entry carries the indices themselves, and the
\* query has an entry for every key of the store.
C16_QueryInCoordinateValues ==
    (pc = "done" /\ "ok" \in DOMAIN Built /\ Built.ok) =>
        /\ Len(Built.selection.items) = Len(call.selected_dims.items)
        /\ \A i \in DOMAIN call.selected_dims.items :
              LET it == call.selected_dims.items[i]
                  q == Built.selection.items[i]
                  values == Values(ds, it.k)
              IN  /\ q.k = it.k
                  /\ IF it.v.t = "list"
                     THEN /\ q.v.t = "values"
                          /\ Range(q.v.v) \subseteq Range(values)
                          /\ i \notin OutsideItems =>
                                q.v.v = [j \in 1..(it.v.v[2] - it.v.v[1]) |-> values[it.v.v[1] + j]]
                     ELSE /\ q.v.t = "scalar"
                          /\ q.v.v \in Range(values)
                          /\ i \notin OutsideItems => q.v.v = values[it.v.v + 1]
C16_Witness ==
    /\ pc = "done"
    /\ ds = ShuffledDataset
    /\ "ok" \in DOMAIN Built
    /\ Built.ok
    /\ \E i, j \in DOMAIN call.selected_dims.items :
          /\ call.selected_dims.items[i].v = ListV(1, 3)
          /\ Built.selection.items[i].v.v = <<3000000, -1000000>>
          /\ call.selected_dims.items[j].v = IntV(2)
          /\ Built.selection.items[j].v.v = 200000

\* the lines the requests made so far printed, in order
RECURSIVE LinesOf(_)
LinesOf(requests) ==
    IF requests = <<>> THEN <<>> ELSE Head(requests).lines \o LinesOf(Tail(requests))
\* the engines that raise before the first that opens under env, then that one
EnginesUpToFirstOpen(env) ==
    LET opens == {i \in 1..2 : env.open[<<"zarr", "netcdf4">>[i]] = "ok"}
    IN  SubSeq(<<"zarr", "netcdf4">>, 1,
               IF opens = {} THEN 2 ELSE CHOOSE i \in opens : \A j \in opens : i <= j)

\* C17: every request of ShowStats or ShowPlot that fetches ends either
\* displayed or failed, after trying each engine at most once (in order, up
\* to the first that opens) and the authenticated opener at most once, and
\* only after the generic tier raised; nothing is retried, and every request
\* runs the whole fetch again under the conditions of its own time: it
\* prints its own lines, and displays only what that run fetched.
C17_FetchOncePerRequest ==
    /\ \A k \in DOMAIN ret :
          LET q == ret[k]
          IN  /\ Len(q.tiers) \in {1, 2}
              /\ q.tiers[1].tier = "standard"
              /\ q.tiers[1].tried = EnginesUpToFirstOpen(q.env)
              /\ Len(q.tiers) = 2 <=> ~StdOk(q.env)
              /\ Len(q.tiers) = 2 => q.tiers[2].tier = "cmems"
              /\ q.via = IF StdOk(q.env) THEN "standard"
                         ELSE IF CmemsOk(q.env) THEN "cmems" ELSE "none"
              /\ q.shown => q.via # "none"
              /\ q.shown \in BOOLEAN
    /\ printed = LinesOf(ret)
C17_Witness ==
    /\ Len(ret) = 2
    /\ ret[1].fn = ret[2].fn
    /\ ret[1].shown
    /\ ret[1].via = "standard"
    /\ ~ret[2].shown
    /\ Len(ret[2].tiers) = 2
    /\ Len(ret[2].tiers[1].tried) = 2
    /\ Len(printed) = 4

\* C18: after Reset the application is as good as new: whenever a variable
\* and a store are in place for which a click on 'Show Plot' with working
\* storage and drawing yields an image, the image element of the layout is
\* there to show it.
C18_PlotTargetSurvivesReset ==
    pc = "ui" =>
        \A env \in {e \in Envs : StdOk(e)} :
            display_plot(ds, 1, selected_var, store, env, "ok").src.kind = "image"
                => map_panel.children = "img"

====
